---- MODULE Spec2Model ----
(***************************************************************************)
(* Model of the sales data chart component (src/src/DataChart.jsx): the    *)
(* component state, its event handlers and CSV load callbacks, and the     *)
(* derivations it memoises (isValidDateRange, chartData, ...).             *)
(*                                                                         *)
(* JavaScript strings are sequences of one-character strings, so that      *)
(* parseInt, parseFloat, padStart and localeCompare are computed on the    *)
(* characters.  JavaScript Numbers that hold sums are IEEE 754 binary64    *)
(* values, kept as a sign and a fixed-point bit vector wide enough to hold *)
(* every binary64 value the model produces exactly; every arithmetic       *)
(* result is rounded to 53 significant bits, ties to even.                 *)
(***************************************************************************)
EXTENDS Integers, Sequences, FiniteSets, TLC

(***************************************************************************)
(* Characters                                                              *)
(***************************************************************************)
DigitChars == <<"0", "1", "2", "3", "4", "5", "6", "7", "8", "9">>

Digits == {DigitChars[i] : i \in 1..Len(DigitChars)}

DigitVal(c) == (CHOOSE i \in 1..Len(DigitChars) : DigitChars[i] = c) - 1

\* StrWhiteSpaceChar, as far as the sample alphabet goes
WhiteSpace == {" "}

\* s without its first n characters
Drop(s, n) == IF n >= Len(s) THEN <<>> ELSE SubSeq(s, n + 1, Len(s))

\* number of leading characters of s that belong to the set chars
RECURSIVE PrefixLen(_, _)
PrefixLen(s, chars) ==
  IF s = <<>> \/ Head(s) \notin chars THEN 0 ELSE 1 + PrefixLen(Tail(s), chars)

\* leading white space removed (the first step of parseInt and parseFloat)
TrimStart(s) == Drop(s, PrefixLen(s, WhiteSpace))

\* value of a sequence of decimal digits, most significant first
RECURSIVE DigitsValue(_)
DigitsValue(ds) ==
  IF ds = <<>> THEN 0
  ELSE 10 * DigitsValue(SubSeq(ds, 1, Len(ds) - 1)) + DigitVal(ds[Len(ds)])

RECURSIVE Pow(_, _)
Pow(b, n) == IF n = 0 THEN 1 ELSE b * Pow(b, n - 1)

(***************************************************************************)
(* parseInt(string) with no radix: leading white space is skipped, a sign  *)
(* is read, a "0x"/"0X" prefix switches to radix 16, and the longest       *)
(* prefix of digits is the value; no digit at all gives NaN.               *)
(***************************************************************************)
HexChars == <<"0", "1", "2", "3", "4", "5", "6", "7", "8", "9",
              "a", "b", "c", "d", "e", "f">>

HexUpper == <<"0", "1", "2", "3", "4", "5", "6", "7", "8", "9",
              "A", "B", "C", "D", "E", "F">>

HexDigits == {HexChars[i] : i \in 1..16} \cup {HexUpper[i] : i \in 1..16}

HexVal(c) == (CHOOSE i \in 1..16 : HexChars[i] = c \/ HexUpper[i] = c) - 1

RECURSIVE HexValue(_)
HexValue(ds) ==
  IF ds = <<>> THEN 0
  ELSE 16 * HexValue(SubSeq(ds, 1, Len(ds) - 1)) + HexVal(ds[Len(ds)])

NaN == [isNaN |-> TRUE, val |-> 0]

Num(n) == [isNaN |-> FALSE, val |-> n]

\* the digits of the given radix that s starts with, as a number
DigitPrefix(s, hex) ==
  IF hex THEN HexValue(SubSeq(s, 1, PrefixLen(s, HexDigits)))
  ELSE DigitsValue(SubSeq(s, 1, PrefixLen(s, Digits)))

HasDigitPrefix(s, hex) ==
  s # <<>> /\ Head(s) \in (IF hex THEN HexDigits ELSE Digits)

\* s: the string after its sign
parseIntBody(s, sign) ==
  IF Len(s) >= 2 /\ s[1] = "0" /\ s[2] \in {"x", "X"}
  THEN IF HasDigitPrefix(Drop(s, 2), TRUE)
       THEN Num(sign * DigitPrefix(Drop(s, 2), TRUE)) ELSE NaN
  ELSE IF HasDigitPrefix(s, FALSE) THEN Num(sign * DigitPrefix(s, FALSE)) ELSE NaN

\* s: the string after its leading white space
parseIntTrimmed(s) ==
  IF s # <<>> /\ Head(s) \in {"+", "-"}
  THEN parseIntBody(Tail(s), IF Head(s) = "-" THEN -1 ELSE 1)
  ELSE parseIntBody(s, 1)

parseInt(string) == parseIntTrimmed(TrimStart(string))

(***************************************************************************)
(* Numbers.  A magnitude is a fixed-point numeral in base 2^LimbBits, most *)
(* significant limb first: one limb for the integer part, FracLimbs limbs  *)
(* for the fraction.  A binary64 value keeps SignificandBits significant   *)
(* bits; the numeral is wide enough that every value between 0.001 and     *)
(* 2^LimbBits in magnitude, and every exact sum or product formed below,   *)
(* is held without loss before it is rounded.                              *)
(***************************************************************************)
SignificandBits == 53

LimbBits == 16

LimbBase == Pow(2, LimbBits)

FracLimbs == 5

NumLimbs == 1 + FracLimbs

Width == NumLimbs * LimbBits

ZeroMag == [l \in 1..NumLimbs |-> 0]

\* bit k of a magnitude, k = 1 the most significant
LimbOf(k) == ((k - 1) \div LimbBits) + 1

ShiftOf(k) == LimbBits - 1 - ((k - 1) % LimbBits)

Bit(a, k) == (a[LimbOf(k)] \div Pow(2, ShiftOf(k))) % 2

\* a + b, limb by limb from the least significant (no overflow occurs)
RECURSIVE AddFrom(_, _, _, _)
AddFrom(a, b, l, carry) ==
  IF l = 0 THEN <<>>
  ELSE LET s == a[l] + b[l] + carry
       IN  Append(AddFrom(a, b, l - 1, s \div LimbBase), s % LimbBase)

MagAdd(a, b) == AddFrom(a, b, NumLimbs, 0)

\* a - b for a >= b
RECURSIVE SubFrom(_, _, _, _)
SubFrom(a, b, l, borrow) ==
  IF l = 0 THEN <<>>
  ELSE LET d == a[l] - b[l] - borrow
       IN  Append(SubFrom(a, b, l - 1, IF d < 0 THEN 1 ELSE 0),
                  IF d < 0 THEN d + LimbBase ELSE d)

MagSub(a, b) == SubFrom(a, b, NumLimbs, 0)

\* a * n for a small natural number n
RECURSIVE TimesFrom(_, _, _, _)
TimesFrom(a, n, l, carry) ==
  IF l = 0 THEN <<>>
  ELSE LET p == a[l] * n + carry
       IN  Append(TimesFrom(a, n, l - 1, p \div LimbBase), p % LimbBase)

MagTimes(a, n) == TimesFrom(a, n, NumLimbs, 0)

MagLess(a, b) ==
  \E l \in 1..NumLimbs : a[l] < b[l] /\ \A j \in 1..(l - 1) : a[j] = b[j]

\* the magnitude with a single one at bit k
UnitAt(k) == [l \in 1..NumLimbs |-> IF l = LimbOf(k) THEN Pow(2, ShiftOf(k)) ELSE 0]

\* the bits after bit k cleared
Truncate(a, k) ==
  [l \in 1..NumLimbs |->
     IF l < LimbOf(k) THEN a[l]
     ELSE IF l > LimbOf(k) THEN 0
     ELSE (a[l] \div Pow(2, ShiftOf(k))) * Pow(2, ShiftOf(k))]

\* position of the leading one of a nonzero magnitude
LeadingBit(a) ==
  LET l == CHOOSE i \in 1..NumLimbs : a[i] # 0 /\ \A j \in 1..(i - 1) : a[j] = 0
      s == CHOOSE t \in 0..(LimbBits - 1) : a[l] \div Pow(2, t) = 1
  IN  l * LimbBits - s

\* a rounded at bit last: to nearest, ties to even.  sticky says that the
\* exact value exceeds the numeral by a nonzero amount below its last bit.
RoundAt(a, last, sticky) ==
  IF last >= Width THEN a
  ELSE IF Bit(a, last + 1) = 1
          /\ (sticky \/ Bit(a, last) = 1 \/ \E k \in (last + 2)..Width : Bit(a, k) = 1)
       THEN MagAdd(Truncate(a, last), UnitAt(last))
       ELSE Truncate(a, last)

\* Round to SignificandBits significant bits
RoundToDouble(a, sticky) ==
  IF a = ZeroMag THEN a ELSE RoundAt(a, LeadingBit(a) + SignificandBits - 1, sticky)

\* A finite Number: sign and magnitude
Float(neg, mag) == [neg |-> neg, mag |-> mag]

PlusZero == Float(FALSE, ZeroMag)

\* the exact sum of two Numbers, before rounding
ExactSum(x, y, less) ==
  IF x.neg = y.neg THEN Float(x.neg, MagAdd(x.mag, y.mag))
  ELSE IF x.mag = y.mag THEN PlusZero
  ELSE IF less THEN Float(y.neg, MagSub(y.mag, x.mag))
  ELSE Float(x.neg, MagSub(x.mag, y.mag))

Rounded(x) == Float(x.neg, RoundToDouble(x.mag, FALSE))

\* x + y
FAdd(x, y) == Rounded(ExactSum(x, y, MagLess(x.mag, y.mag)))

\* x * 100
FTimes100(x) == Float(x.neg, RoundToDouble(MagTimes(x.mag, 100), FALSE))

\* Math.round(x): the nearest integer, a tie going to the larger one
MathRound(x) ==
  LET half  == Bit(x.mag, LimbBits + 1) = 1
      above == half /\ \E k \in (LimbBits + 2)..Width : Bit(x.mag, k) = 1
  IN  IF x.neg THEN -(x.mag[1] + (IF above THEN 1 ELSE 0))
      ELSE x.mag[1] + (IF half THEN 1 ELSE 0)

\* the first n fraction limbs of r/d (0 <= r < d), and what is left
RECURSIVE FracExpansion(_, _, _)
FracExpansion(r, d, n) ==
  IF n = 0 THEN [limbs |-> <<>>, rem |-> r]
  ELSE LET rest == FracExpansion((r * LimbBase) % d, d, n - 1)
       IN  [limbs |-> <<(r * LimbBase) \div d>> \o rest.limbs, rem |-> rest.rem]

(***************************************************************************)
(* parseFloat(string): leading white space is skipped, then the longest    *)
(* prefix of the form [+-] digits [. digits] or [+-] . digits is           *)
(* the value, converted to the nearest binary64 value; anything else       *)
(* gives NaN.  (The sample values hold no exponent part and no             *)
(* "Infinity".)  The result carries the decimal it was read from: num      *)
(* over 10^scale.                                                          *)
(***************************************************************************)
NotANumber == [isNaN |-> TRUE, neg |-> FALSE, num |-> 0, scale |-> 0]

\* s: the string after its sign; n1: the number of integer digits it starts with
DecimalDigits(s, n1, neg) ==
  IF n1 < Len(s) /\ s[n1 + 1] = "."
  THEN LET n2 == PrefixLen(Drop(s, n1 + 1), Digits)
       IN  IF n1 + n2 = 0 THEN NotANumber
           ELSE [isNaN |-> FALSE, neg |-> neg, scale |-> n2,
                 num |-> DigitsValue(SubSeq(s, 1, n1) \o SubSeq(s, n1 + 2, n1 + 1 + n2))]
  ELSE IF n1 = 0 THEN NotANumber
  ELSE [isNaN |-> FALSE, neg |-> neg, scale |-> 0, num |-> DigitsValue(SubSeq(s, 1, n1))]

DecimalBody(s, neg) == DecimalDigits(s, PrefixLen(s, Digits), neg)

\* s: the string after its leading white space
DecimalTrimmed(s) ==
  IF s # <<>> /\ Head(s) \in {"+", "-"} THEN DecimalBody(Tail(s), Head(s) = "-")
  ELSE DecimalBody(s, FALSE)

StrDecimalLiteral(string) == DecimalTrimmed(TrimStart(string))

\* the binary64 value nearest to the decimal num / 10^scale
FromExpansion(neg, int, exp) ==
  Float(neg, RoundToDouble(<<int>> \o exp.limbs, exp.rem # 0))

ToDoubleOver(dec, d) ==
  FromExpansion(dec.neg, dec.num \div d, FracExpansion(dec.num % d, d, FracLimbs))

ToDouble(dec) == ToDoubleOver(dec, Pow(10, dec.scale))

\* x || 0 for the result of parseFloat: NaN and zero are falsy
OrZero(dec) == IF dec.isNaN \/ dec.num = 0 THEN PlusZero ELSE ToDouble(dec)

\* parseFloat(string) || 0
parseFloatOrZero(string) == OrZero(StrDecimalLiteral(string))

(***************************************************************************)
(* Rows of the parsed CSV (header: true): a row maps column names to       *)
(* strings; a row that is too short lacks its last columns.                *)
(***************************************************************************)
Has(row, field) == field \in DOMAIN row

\* String(row[field]), as parseInt, parseFloat and template literals see it
Undefined == <<"u", "n", "d", "e", "f", "i", "n", "e", "d">>

FieldString(row, field) == IF Has(row, field) THEN row[field] ELSE Undefined

\* a match on the start of the field instead of the whole field
FieldEquals_StartsWith(row, field, value) ==
  /\ Has(row, field) /\ Len(row[field]) >= Len(value)
  /\ SubSeq(row[field], 1, Len(value)) = value

\* row[field] === value, for a string value
FieldEquals(row, field, value) == Has(row, field) /\ row[field] = value

(***************************************************************************)
(* isValidDateRange (useMemo)                                              *)
(***************************************************************************)
\* a range of one month taken for invalid
isValidDateRange_Strict(start, end) ==
  end.year * 12 + end.month > start.year * 12 + start.month

isValidDateRange(start, end) ==
  end.year * 12 + end.month >= start.year * 12 + start.month

(***************************************************************************)
(* chartData (useMemo): guard, filter, aggregate by month, sort, round     *)
(***************************************************************************)
filterField(fType) == IF fType = "supplier" THEN "SUPPLIER" ELSE "ITEM DESCRIPTION"

\* the end month left out of the range
inRange_OpenEnd(year, month, start, end) ==
  /\ ~year.isNaN /\ ~month.isNaN
  /\ year.val * 12 + month.val >= start.year * 12 + start.month
  /\ year.val * 12 + month.val < end.year * 12 + end.month

\* rowDate >= start && rowDate <= end: comparisons with NaN are false
inRange(year, month, start, end) ==
  /\ ~year.isNaN /\ ~month.isNaN
  /\ year.val * 12 + month.val >= start.year * 12 + start.month
  /\ year.val * 12 + month.val <= end.year * 12 + end.month

\* the callback of rawData.filter
rowPasses(row, selected, fType, start, end) ==
  IF ~FieldEquals(row, filterField(fType), selected) THEN FALSE
  ELSE inRange(parseInt(FieldString(row, "YEAR")),
               parseInt(FieldString(row, "MONTH")), start, end)

filtered(rows, selected, fType, start, end) ==
  SelectSeq(rows, LAMBDA row : rowPasses(row, selected, fType, start, end))

\* String.prototype.padStart(2, '0')
padStart(s) == IF Len(s) >= 2 THEN s ELSE [i \in 1..(2 - Len(s)) |-> "0"] \o s

\* `${row.YEAR}-${String(row.MONTH).padStart(2, '0')}`
monthKey(row) == FieldString(row, "YEAR") \o <<"-">> \o padStart(FieldString(row, "MONTH"))

\* the three sums of an entry of monthlyData, and the column each adds up
Measures == {"retailSales", "warehouseSales", "retailTransfers"}

Column(measure) ==
  CASE measure = "retailSales"     -> "RETAIL SALES"
    [] measure = "warehouseSales"  -> "WAREHOUSE SALES"
    [] measure = "retailTransfers" -> "RETAIL TRANSFERS"

\* { month: key, retailSales: ..., warehouseSales: ..., retailTransfers: ... }
Entry(key, sums) ==
  [f \in Measures \cup {"month"} |-> IF f = "month" THEN key ELSE sums[f]]

\* monthlyData[key], created with zero sums if absent
withEntry(monthlyData, key) ==
  IF \E i \in 1..Len(monthlyData) : monthlyData[i].month = key THEN monthlyData
  ELSE Append(monthlyData, Entry(key, [m \in Measures |-> PlusZero]))

\* each sum overwritten by the row's amount instead of increased by it
addTo_Overwrite(entry, row) ==
  Entry(entry.month, [m \in Measures |->
                        parseFloatOrZero(FieldString(row, Column(m)))])

\* monthlyData[key].retailSales += parseFloat(row['RETAIL SALES']) || 0; ...
addTo(entry, row) ==
  Entry(entry.month, [m \in Measures |->
                        FAdd(entry[m], parseFloatOrZero(FieldString(row, Column(m))))])

addAt(monthlyData, key, row) ==
  [i \in 1..Len(monthlyData) |->
     IF monthlyData[i].month = key THEN addTo(monthlyData[i], row) ELSE monthlyData[i]]

\* a row with an amount that is not a number left out
addRow_SkipMalformed(monthlyData, row) ==
  IF \E m \in Measures : StrDecimalLiteral(FieldString(row, Column(m))).isNaN
  THEN monthlyData
  ELSE addAt(withEntry(monthlyData, monthKey(row)), monthKey(row), row)

\* one step of filtered.forEach
addRow(monthlyData, row) == addAt(withEntry(monthlyData, monthKey(row)), monthKey(row), row)

\* monthlyData after the forEach; entries are kept in insertion order
RECURSIVE aggregateByMonth(_)
aggregateByMonth(rows) ==
  IF rows = <<>> THEN <<>>
  ELSE addRow(aggregateByMonth(SubSeq(rows, 1, Len(rows) - 1)), rows[Len(rows)])

(***************************************************************************)
(* a.localeCompare(b) < 0.  Characters compare by their collation rank:    *)
(* white space, punctuation, symbols, digits, then letters without regard  *)
(* to case; strings that agree so far are ordered by length, and strings   *)
(* that differ only in case put the lowercase letter first.                *)
(***************************************************************************)
LowerChars == <<"a", "b", "c", "d", "e", "f", "g", "h", "i", "j", "k", "l", "m",
                "n", "o", "p", "q", "r", "s", "t", "u", "v", "w", "x", "y", "z">>

UpperChars == <<"A", "B", "C", "D", "E", "F", "G", "H", "I", "J", "K", "L", "M",
                "N", "O", "P", "Q", "R", "S", "T", "U", "V", "W", "X", "Y", "Z">>

IsUpper(c) == \E i \in 1..26 : UpperChars[i] = c

toLowerCaseChar(c) ==
  IF IsUpper(c) THEN LowerChars[CHOOSE i \in 1..26 : UpperChars[i] = c] ELSE c

CollationOrder == <<" ", "-", ".", "/", "+">> \o DigitChars \o LowerChars

CollationRank(c) ==
  CHOOSE i \in 1..Len(CollationOrder) : CollationOrder[i] = toLowerCaseChar(c)

\* first position at which the sequences a and b differ, 0 if there is none
FirstDiff(a, b) ==
  LET n    == IF Len(a) < Len(b) THEN Len(a) ELSE Len(b)
      diff == {i \in 1..n : a[i] # b[i]}
  IN  IF diff = {} THEN 0 ELSE CHOOSE i \in diff : \A j \in diff : i <= j

CollationRanks(s) == [i \in 1..Len(s) |-> CollationRank(s[i])]

CaseRank(c) == IF IsUpper(c) THEN 1 ELSE 0

CaseRanks(s) == [i \in 1..Len(s) |-> CaseRank(s[i])]

compareAt(a, b, p, t) ==
  IF p # 0 THEN CollationRank(a[p]) < CollationRank(b[p])
  ELSE IF Len(a) # Len(b) THEN Len(a) < Len(b)
  ELSE t # 0 /\ CaseRank(a[t]) < CaseRank(b[t])

\* the comparison turned around: descending order
localeCompareLess_Descending(a, b) ==
  compareAt(b, a, FirstDiff(CollationRanks(b), CollationRanks(a)),
            FirstDiff(CaseRanks(b), CaseRanks(a)))

localeCompareLess(a, b) ==
  compareAt(a, b, FirstDiff(CollationRanks(a), CollationRanks(b)),
            FirstDiff(CaseRanks(a), CaseRanks(b)))

\* d placed after the entries of sorted that do not follow it
insertByMonth(sorted, d) ==
  SelectSeq(sorted, LAMBDA e : ~localeCompareLess(d.month, e.month))
    \o <<d>> \o SelectSeq(sorted, LAMBDA e : localeCompareLess(d.month, e.month))

\* Array.prototype.sort((a, b) => a.month.localeCompare(b.month)): stable
RECURSIVE sortByMonth(_)
sortByMonth(data) ==
  IF data = <<>> THEN <<>>
  ELSE insertByMonth(sortByMonth(SubSeq(data, 1, Len(data) - 1)), data[Len(data)])

\* Math.round(x * 100) / 100.  The quotient is the binary64 value nearest to
\* n / 100 for the integer n = Math.round(x * 100); it is kept as n, the
\* amount in hundredths.
roundToCents(x) == MathRound(FTimes100(x))

finalize(d) == Entry(d.month, [m \in Measures |-> roundToCents(d[m])])

\* .map(d => ({ ...d, retailSales: Math.round(d.retailSales * 100) / 100, ... }))
finalizeAll(sorted) == [i \in 1..Len(sorted) |-> finalize(sorted[i])]

\* the guard without its test of the selected value
computeChartData_NoSelectionGuard(rows, selected, fType, start, end) ==
  IF Len(rows) = 0 \/ ~isValidDateRange(start, end) THEN <<>>
  ELSE finalizeAll(sortByMonth(aggregateByMonth(
         filtered(rows, selected, fType, start, end))))

computeChartData(rows, selected, fType, start, end) ==
  IF selected = <<>> \/ Len(rows) = 0 \/ ~isValidDateRange(start, end) THEN <<>>
  ELSE finalizeAll(sortByMonth(aggregateByMonth(
         filtered(rows, selected, fType, start, end))))

(***************************************************************************)
(* suppliers, items, yearRange (useMemo over rawData)                      *)
(***************************************************************************)
\* Array.prototype.sort() with no comparator orders strings by code unit
CodeUnitOrder == <<" ", "+", "-", ".", "/">> \o DigitChars \o UpperChars \o LowerChars

CodeUnit(c) == CHOOSE i \in 1..Len(CodeUnitOrder) : CodeUnitOrder[i] = c

CodeUnitLess(a, b) ==
  LET p == FirstDiff(a, b)
  IN  IF p # 0 THEN CodeUnit(a[p]) < CodeUnit(b[p]) ELSE Len(a) < Len(b)

\* Array.from(set).sort()
RECURSIVE sortSet(_)
sortSet(S) ==
  IF S = {} THEN <<>>
  ELSE LET least == CHOOSE a \in S : \A b \in S \ {a} : CodeUnitLess(a, b)
       IN  <<least>> \o sortSet(S \ {least})

\* the values of a column that are truthy (present and not empty)
columnValues(rows, field) ==
  {rows[i][field] : i \in {j \in 1..Len(rows) : Has(rows[j], field) /\ rows[j][field] # <<>>}}

\* the suppliers as the rows give them: not collected in a set, not sorted
suppliers_AsGiven(rows) ==
  SelectSeq([i \in 1..Len(rows) |-> FieldString(rows[i], "SUPPLIER")],
            LAMBDA value : value # <<>>)

suppliers(rows) == sortSet(columnValues(rows, "SUPPLIER"))

items(rows) == sortSet(columnValues(rows, "ITEM DESCRIPTION"))

DefaultMinYear == 2020

DefaultMaxYear == 2024

\* the years of the first and the last row taken for the smallest and largest
yearRange_FirstLast(rows) ==
  IF Len(rows) = 0 \/ \A i \in 1..Len(rows) : parseInt(FieldString(rows[i], "YEAR")).isNaN
  THEN [min |-> DefaultMinYear, max |-> DefaultMaxYear]
  ELSE [min |-> parseInt(FieldString(rows[1], "YEAR")).val,
        max |-> parseInt(FieldString(rows[Len(rows)], "YEAR")).val]

yearRange(rows) ==
  LET years == {parseInt(FieldString(rows[i], "YEAR")).val :
                  i \in {j \in 1..Len(rows) : ~parseInt(FieldString(rows[j], "YEAR")).isNaN}}
  IN  IF Len(rows) = 0 \/ years = {}
      THEN [min |-> DefaultMinYear, max |-> DefaultMaxYear]
      ELSE [min |-> CHOOSE y \in years : \A z \in years : y <= z,
            max |-> CHOOSE y \in years : \A z \in years : y >= z]

\* { suppliers, items, yearRange }
deriveDomain(rows) ==
  [suppliers |-> suppliers(rows), items |-> items(rows), yearRange |-> yearRange(rows)]

(***************************************************************************)
(* filteredOptions (useMemo)                                               *)
(***************************************************************************)
OptionLimit == 100

\* no change of case: the match made case-sensitive
toLowerCase_AsIs(s) == s

toLowerCase(s) == [i \in 1..Len(s) |-> toLowerCaseChar(s[i])]

\* a match at the start of the string only
includes_StartsWith(s, sub) == Len(sub) <= Len(s) /\ SubSeq(s, 1, Len(sub)) = sub

\* String.prototype.includes
includes(s, sub) ==
  \E k \in 0..(Len(s) - Len(sub)) : SubSeq(s, k + 1, k + Len(sub)) = sub

\* Array.prototype.slice(0, n)
slice(s, n) == SubSeq(s, 1, IF Len(s) < n THEN Len(s) ELSE n)

\* the options kept for a search term: those whose text contains it
matching(options, term) ==
  SelectSeq(options, LAMBDA opt : includes(toLowerCase(opt), toLowerCase(term)))

\* the callback of the filteredOptions useMemo
filteredOptionsOf(supplierList, itemList, fType, term) ==
  IF term = <<>>
  THEN slice(IF fType = "supplier" THEN supplierList ELSE itemList, OptionLimit)
  ELSE slice(matching(IF fType = "supplier" THEN supplierList ELSE itemList, term),
             OptionLimit)

filteredOptions(rows, fType, term) ==
  filteredOptionsOf(suppliers(rows), items(rows), fType, term)

(***************************************************************************)
(* generateDateOptions, and the value strings of the two date selects      *)
(***************************************************************************)
\* { year, month }
Cursor(y, m) == [year |-> y, month |-> m]

generateDateOptions(range) ==
  {Cursor(y, m) : y \in range.min..range.max, m \in 1..12}

\* decimal digits of a natural number
RECURSIVE NatToString(_)
NatToString(n) ==
  IF n < 10 THEN <<DigitChars[n + 1]>>
  ELSE NatToString(n \div 10) \o <<DigitChars[(n % 10) + 1]>>

NumberToString(n) == IF n < 0 THEN <<"-">> \o NatToString(-n) ELSE NatToString(n)

\* `${opt.year}-${opt.month}`
optionValue(opt) == NumberToString(opt.year) \o <<"-">> \o NumberToString(opt.month)

\* String.prototype.split('-')
RECURSIVE split(_)
split(s) ==
  LET n == PrefixLen(s, {s[i] : i \in 1..Len(s)} \ {"-"})
  IN  IF n = Len(s) THEN <<s>> ELSE <<SubSeq(s, 1, n)>> \o split(Drop(s, n + 1))

\* Number(string) for the pieces of an option value: digits, or empty (0)
Number(s) == IF s = <<>> THEN 0 ELSE DigitsValue(s)

\* const [y, m] = e.target.value.split('-').map(Number)
parseOptionValue(value) ==
  LET parts == split(value)
  IN  Cursor(Number(parts[1]), Number(parts[2]))

(***************************************************************************)
(* Sample CSV content                                                      *)
(***************************************************************************)
Row(supplier, item, year, month, retail, warehouse, transfers) ==
  [f \in {"SUPPLIER", "ITEM DESCRIPTION", "YEAR", "MONTH",
          "RETAIL SALES", "WAREHOUSE SALES", "RETAIL TRANSFERS"} |->
     CASE f = "SUPPLIER"         -> supplier
       [] f = "ITEM DESCRIPTION" -> item
       [] f = "YEAR"             -> year
       [] f = "MONTH"            -> month
       [] f = "RETAIL SALES"     -> retail
       [] f = "WAREHOUSE SALES"  -> warehouse
       [] f = "RETAIL TRANSFERS" -> transfers]

\* a row cut short before the given columns
Without(row, fields) == [f \in DOMAIN row \ fields |-> row[f]]

Acme    == <<"A", "c", "m", "e">>
acmeLow == <<"a", "c", "m", "e">>
AcmeCo  == <<"A", "c", "m", "e", " ", "C", "o">>
Ale     == <<"A", "l", "e">>
Rum     == <<"R", "u", "m">>

Y2018  == <<"2", "0", "1", "8">>
Y2019  == <<"2", "0", "1", "9">>
Y2020  == <<"2", "0", "2", "0">>
Y9999  == <<"9", "9", "9", "9">>
Y10000 == <<"1", "0", "0", "0", "0">>

SampleRows ==
  << \* two rows of one month
     Row(Acme, Ale, Y2019, <<"1">>, <<"1", "0">>, <<"5">>, <<"0">>),
     Row(Acme, Ale, Y2019, <<"1">>, <<"2", ".", "5">>, <<"0">>, <<"1">>),
     \* the same month written with a leading blank; three-decimal amounts
     Row(Acme, Ale, Y2019, <<" ", "1">>,
         <<"1", ".", "0", "0", "5">>, <<"0", ".", "1", "2", "5">>,
         <<"-", "0", ".", "1", "2", "5">>),
     \* a non-numeric amount, and a row cut short before its last column
     Without(Row(Acme, Rum, Y2019, <<"1", "2">>, <<"N", "/", "A">>,
                 <<"0", ".", "1">>, <<>>), {"RETAIL TRANSFERS"}),
     Row(Acme, Ale, Y2020, <<"0", "1">>, <<"0", ".", "2">>,
         <<"0", ".", "0", "0", "4">>, <<"-", "1", ".", "0", "0", "5">>),
     \* other suppliers: another case, a longer name, the name as an item, none
     Row(acmeLow, Ale, Y2019, <<"1">>, <<"7">>, <<"7">>, <<"7">>),
     Row(AcmeCo, Acme, Y2019, <<"2">>, <<"3">>, <<"3">>, <<"3">>),
     Row(<<>>, Ale, Y2019, <<"1">>, <<"6">>, <<"6">>, <<"6">>),
     \* year or month that does not parse
     Row(Acme, Ale, <<"x">>, <<"1">>, <<"1">>, <<"1">>, <<"1">>),
     Row(Acme, Ale, Y2019, <<>>, <<"1">>, <<"1">>, <<"1">>),
     \* a month before every sample range
     Row(Acme, Ale, Y2018, <<"1", "2">>, <<"4">>, <<"4">>, <<"4">>),
     \* the last month of a four-digit year and the first of a five-digit year
     Row(Acme, Ale, Y9999, <<"1", "2">>, <<"8">>, <<"0", ".", "2", "5">>, <<"0">>),
     Row(Acme, Ale, Y10000, <<"1">>, <<"9">>, <<"0", ".", "1">>, <<"0">>) >>

MaxRows == 2

\* every sequence of at most MaxRows sample rows
RECURSIVE RowSeqs(_)
RowSeqs(n) ==
  IF n = 0 THEN {<<>>}
  ELSE LET shorter == RowSeqs(n - 1)
       IN  shorter \cup {Append(s, SampleRows[i]) :
                           s \in {t \in shorter : Len(t) = n - 1},
                           i \in 1..Len(SampleRows)}

SampleSelections == {<<>>, Acme, Ale}

\* start and end of the sample ranges: one month, one year, across a year's
\* end, one month again, end before start, and across the change to five-digit
\* years
SampleRanges ==
  { <<Cursor(2019, 1), Cursor(2019, 1)>>,
    <<Cursor(2019, 1), Cursor(2019, 12)>>,
    <<Cursor(2019, 2), Cursor(2020, 1)>>,
    <<Cursor(2020, 1), Cursor(2020, 1)>>,
    <<Cursor(2020, 1), Cursor(2019, 1)>>,
    <<Cursor(9999, 1), Cursor(10000, 12)>> }

\* the CSV files the load may deliver
SampleFiles ==
  { <<>>,
    <<SampleRows[1], SampleRows[2], SampleRows[4], SampleRows[7]>>,
    <<SampleRows[3], SampleRows[5], SampleRows[6], SampleRows[9]>> }

SearchTerms == {<<>>, <<"a", "c">>}

(***************************************************************************)
(* Component state                                                         *)
(***************************************************************************)
VARIABLES
  rawData,        \* useState([])
  loading,        \* useState(true)
  error,          \* useState(null): "null" or the message
  filterType,     \* useState('supplier')
  selectedValue,  \* useState('')
  startDate,      \* useState({ year: 2017, month: 1 })
  endDate,        \* useState({ year: 2020, month: 1 })
  searchTerm,     \* useState('')
  domain,         \* the value held by the { suppliers, items, yearRange } useMemo
  options,        \* the value held by the filteredOptions useMemo
  validRange,     \* the value held by the isValidDateRange useMemo
  chartData,      \* the value held by the chartData useMemo
  request,        \* the Papa.parse download: "pending", "complete" or "failed"
  rendered,       \* whether the component has rendered with its current state
  \* App (the account screen) and the users/{uid} document it reads and writes
  user,                 \* useState(null): "null" or the uid
  appLoading,           \* App's useState(true) named loading
  isRegistered,         \* useState(false)
  registrationLoading,  \* useState(false)
  stored,               \* the document's isRegistered: "missing", "true" or "false"
  fetches,              \* each fetchRegistrationStatus call: where it stands
  toggle,               \* the toggleRegistration call: where it stands
  signingOut            \* handleSignOut between signOut and its continuation

accountVars == <<user, appLoading, isRegistered, registrationLoading, stored, fetches,
                 toggle, signingOut>>

chartVars == <<rawData, loading, error, filterType, selectedValue, startDate, endDate,
               searchTerm, domain, options, validRange, chartData, request, rendered>>

vars == <<chartVars, accountVars>>

\* the most fetchRegistrationStatus calls in flight at once
MaxFetches == 2

Idle == [pc |-> "idle", value |-> "false"]

\* App as mounted, before the first auth-change callback, nothing in flight
AccountMounted ==
  /\ user = "null"
  /\ appLoading = TRUE
  /\ isRegistered = FALSE
  /\ registrationLoading = FALSE
  /\ fetches = [f \in 1..MaxFetches |-> Idle]
  /\ toggle = Idle
  /\ signingOut = FALSE

\* a dependency list that leaves out startDate
chartDeps_NoStartDate(rows, selected, fType, start, end) == <<rows, selected, fType, end>>

\* the dependency list of the chartData useMemo
chartDeps(rows, selected, fType, start, end) == <<rows, selected, fType, start, end>>

\* the dependency list of the filteredOptions useMemo
optionDeps(fType, supplierList, itemList, term) == <<fType, supplierList, itemList, term>>

\* A render after a state change: each useMemo recomputes its value when one of
\* its dependencies changed and keeps the held value otherwise.
Rerender ==
  /\ domain' = IF rawData' = rawData THEN domain ELSE deriveDomain(rawData')
  /\ options' =
       IF optionDeps(filterType', domain'.suppliers, domain'.items, searchTerm')
            = optionDeps(filterType, domain.suppliers, domain.items, searchTerm)
       THEN options
       ELSE filteredOptionsOf(domain'.suppliers, domain'.items, filterType', searchTerm')
  /\ validRange' =
       IF <<startDate', endDate'>> = <<startDate, endDate>> THEN validRange
       ELSE isValidDateRange(startDate', endDate')
  /\ chartData' =
       IF chartDeps(rawData', selectedValue', filterType', startDate', endDate')
            = chartDeps(rawData, selectedValue, filterType, startDate, endDate)
       THEN chartData
       ELSE computeChartData(rawData', selectedValue', filterType', startDate', endDate')
  /\ rendered' = TRUE
  /\ UNCHANGED accountVars

\* the placeholders tested in another order: the selection before the range
View_SelectionFirst ==
  IF loading THEN "loading"
  ELSE IF error # "null" THEN "error"
  ELSE IF selectedValue = <<>> THEN "select"
  ELSE IF ~isValidDateRange(startDate, endDate) THEN "invalidRange"
  ELSE IF Len(chartData) = 0 THEN "noData"
  ELSE "chart"

\* what the component returns
View ==
  IF loading THEN "loading"
  ELSE IF error # "null" THEN "error"
  ELSE IF ~isValidDateRange(startDate, endDate) THEN "invalidRange"
  ELSE IF selectedValue = <<>> THEN "select"
  ELSE IF Len(chartData) = 0 THEN "noData"
  ELSE "chart"

\* the filter controls are part of the main view only
ControlsShown == ~loading /\ error = "null"

\* DataChart as mounted, its CSV download under way
ChartMounted ==
  /\ rawData = <<>>
  /\ loading = TRUE
  /\ error = "null"
  /\ filterType = "supplier"
  /\ selectedValue = <<>>
  /\ startDate = Cursor(2017, 1)
  /\ endDate = Cursor(2020, 1)
  /\ searchTerm = <<>>
  /\ domain = deriveDomain(<<>>)
  /\ options = <<>>
  /\ validRange = TRUE
  /\ chartData = <<>>
  /\ request = "pending"
  /\ rendered = TRUE

Init == ChartMounted /\ AccountMounted /\ stored = "missing"

\* Papa.parse complete callback
PapaComplete ==
  /\ request = "pending"
  /\ \E data \in SampleFiles : rawData' = data
  /\ loading' = FALSE
  /\ request' = "complete"
  /\ UNCHANGED <<error, filterType, selectedValue, startDate, endDate, searchTerm>>
  /\ Rerender

\* an error callback that leaves the loading flag set
PapaError_StillLoading ==
  /\ request = "pending"
  /\ error' = "Failed to load data"
  /\ request' = "failed"
  /\ UNCHANGED <<rawData, loading, filterType, selectedValue, startDate, endDate,
                 searchTerm>>
  /\ Rerender

\* Papa.parse error callback
PapaError ==
  /\ request = "pending"
  /\ error' = "Failed to load data"
  /\ loading' = FALSE
  /\ request' = "failed"
  /\ UNCHANGED <<rawData, filterType, selectedValue, startDate, endDate, searchTerm>>
  /\ Rerender

\* a toggle that keeps the selected value
ClickFilterType_KeepSelection(fType) ==
  /\ ControlsShown
  /\ filterType' = fType
  /\ searchTerm' = <<>>
  /\ UNCHANGED <<rawData, loading, error, selectedValue, startDate, endDate, request>>
  /\ Rerender

\* onClick of the Supplier and Item toggle buttons
ClickFilterType(fType) ==
  /\ ControlsShown
  /\ filterType' = fType
  /\ selectedValue' = <<>>
  /\ searchTerm' = <<>>
  /\ UNCHANGED <<rawData, loading, error, startDate, endDate, request>>
  /\ Rerender

\* onChange of the search input
ChangeSearchTerm ==
  /\ ControlsShown
  /\ \E term \in SearchTerms : searchTerm' = term
  /\ UNCHANGED <<rawData, loading, error, filterType, selectedValue, startDate,
                 endDate, request>>
  /\ Rerender

\* onChange of the value select: "" or one of the options shown
ChangeSelectedValue ==
  /\ ControlsShown
  /\ \E value \in {<<>>} \cup {options[i] : i \in 1..Len(options)} :
       selectedValue' = value
  /\ UNCHANGED <<rawData, loading, error, filterType, startDate, endDate,
                 searchTerm, request>>
  /\ Rerender

\* onChange of the start date select
ChangeStartDate ==
  /\ ControlsShown
  /\ \E opt \in generateDateOptions(domain.yearRange) :
       startDate' = parseOptionValue(optionValue(opt))
  /\ UNCHANGED <<rawData, loading, error, filterType, selectedValue, endDate,
                 searchTerm, request>>
  /\ Rerender

\* onChange of the end date select
ChangeEndDate ==
  /\ ControlsShown
  /\ \E opt \in generateDateOptions(domain.yearRange) :
       endDate' = parseOptionValue(optionValue(opt))
  /\ UNCHANGED <<rawData, loading, error, filterType, selectedValue, startDate,
                 searchTerm, request>>
  /\ Rerender

Next ==
  \/ PapaComplete
  \/ PapaError
  \/ ClickFilterType("supplier")
  \/ ClickFilterType("item")
  \/ ChangeSearchTerm
  \/ ChangeSelectedValue
  \/ ChangeStartDate
  \/ ChangeEndDate

Spec == Init /\ [][Next]_vars

(***************************************************************************)
(* chartData as a function of its inputs: every combination of sample      *)
(* rows, filter type, selected value and date range, then the render that  *)
(* computes chartData from them.                                           *)
(***************************************************************************)
InitAggregate ==
  /\ rawData \in RowSeqs(MaxRows)
  /\ loading = FALSE
  /\ error = "null"
  /\ filterType \in {"supplier", "item"}
  /\ selectedValue \in SampleSelections
  /\ \E range \in SampleRanges : startDate = range[1] /\ endDate = range[2]
  /\ searchTerm = <<>>
  /\ domain = deriveDomain(<<>>)
  /\ options = <<>>
  /\ validRange = TRUE
  /\ chartData = <<>>
  /\ request = "complete"
  /\ rendered = FALSE
  /\ AccountMounted /\ stored = "missing"

\* the first render with these inputs: every useMemo callback runs
Render ==
  /\ ~rendered
  /\ domain' = deriveDomain(rawData)
  /\ options' = filteredOptionsOf(domain'.suppliers, domain'.items, filterType, searchTerm)
  /\ validRange' = isValidDateRange(startDate, endDate)
  /\ chartData' = computeChartData(rawData, selectedValue, filterType, startDate, endDate)
  /\ rendered' = TRUE
  /\ UNCHANGED <<rawData, loading, error, filterType, selectedValue, startDate,
                 endDate, searchTerm, request, accountVars>>

\* a chartData callback that adds its result to the value held before
RenderAgain_Accumulate ==
  /\ rendered
  /\ chartData' = chartData \o
       computeChartData(rawData, selectedValue, filterType, startDate, endDate)
  /\ UNCHANGED <<rawData, loading, error, filterType, selectedValue, startDate,
                 endDate, searchTerm, domain, options, validRange, request, rendered,
                 accountVars>>

\* the chartData callback run once more on the same inputs
RenderAgain ==
  /\ rendered
  /\ chartData' = computeChartData(rawData, selectedValue, filterType, startDate, endDate)
  /\ UNCHANGED <<rawData, loading, error, filterType, selectedValue, startDate,
                 endDate, searchTerm, domain, options, validRange, request, rendered,
                 accountVars>>

NextAggregate == Render \/ RenderAgain

SpecAggregate == InitAggregate /\ [][NextAggregate]_vars

(***************************************************************************)
(* filteredOptions as a function of its inputs: sorted supplier and item   *)
(* lists, among them one longer than the limit, under every filter type    *)
(* and sample search term, then the render that computes the options.      *)
(***************************************************************************)
Ajax == <<"A", "j", "a", "x">>
Beta == <<"B", "e", "t", "a">>

\* "A001", "A002", ...: one name more than the limit, in ascending order
NumberedNames ==
  [i \in 1..(OptionLimit + 1) |->
     <<"A", DigitChars[(i \div 100) + 1], DigitChars[((i \div 10) % 10) + 1],
       DigitChars[(i % 10) + 1]>>]

SampleSupplierLists ==
  { <<>>, <<Acme, Ajax, Beta>>,
    << <<"A", "C", "E">>, Acme, <<"M", "a", "c">>, <<"a", "c", "e">> >>,
    NumberedNames }

SampleItemLists == { <<>>, <<Ale, Rum>>, <<Acme, <<"T", "a", "c", "o">>>> }

SampleTerms ==
  { <<>>, <<"a", "c">>, <<"A", "C">>, <<"a">>, <<"0", "0">>, <<"m", "e">>, <<"z">> }

\* rows whose suppliers and items are those of the two lists
RowsOf(supplierList, itemList) ==
  [i \in 1..(IF Len(supplierList) < Len(itemList) THEN Len(itemList) ELSE Len(supplierList)) |->
     Row(IF i <= Len(supplierList) THEN supplierList[i] ELSE <<>>,
         IF i <= Len(itemList) THEN itemList[i] ELSE <<>>,
         Y2020, <<"1">>, <<"1">>, <<"1">>, <<"1">>)]

InitOptions ==
  /\ \E supplierList \in SampleSupplierLists : \E itemList \in SampleItemLists :
        /\ rawData = RowsOf(supplierList, itemList)
        /\ domain = [suppliers |-> supplierList, items |-> itemList,
                     yearRange |-> yearRange(rawData)]
  /\ loading = FALSE
  /\ error = "null"
  /\ filterType \in {"supplier", "item"}
  /\ selectedValue = <<>>
  /\ startDate = Cursor(2017, 1)
  /\ endDate = Cursor(2020, 1)
  /\ searchTerm \in SampleTerms
  /\ options = <<>>
  /\ validRange = TRUE
  /\ chartData = <<>>
  /\ request = "complete"
  /\ rendered = FALSE
  /\ AccountMounted /\ stored = "missing"

\* the render that runs the filteredOptions callback
RenderOptions ==
  /\ ~rendered
  /\ options' = filteredOptionsOf(domain.suppliers, domain.items, filterType, searchTerm)
  /\ rendered' = TRUE
  /\ UNCHANGED <<rawData, loading, error, filterType, selectedValue, startDate, endDate,
                 searchTerm, domain, validRange, chartData, request, accountVars>>

NextOptions == RenderOptions

SpecOptions == InitOptions /\ [][NextOptions]_vars

(***************************************************************************)
(* App: the auth-change callback with fetchRegistrationStatus,             *)
(* toggleRegistration and handleSignOut.  Every await is a point where the *)
(* other calls may run; a getDoc or setDoc takes effect on the document at *)
(* one step and its caller continues at a later one.  Every store          *)
(* operation succeeds.                                                     *)
(***************************************************************************)
Uid == "u1"

InFlight(call) == call.pc # "idle"

\* the first callback of onAuthStateChanged when nobody is signed in:
\* setUser(null); setLoading(false)
AuthStateNull ==
  /\ appLoading /\ user = "null"
  /\ \A f \in 1..MaxFetches : ~InFlight(fetches[f])
  /\ appLoading' = FALSE
  /\ UNCHANGED <<user, isRegistered, registrationLoading, stored, fetches, toggle,
                 signingOut, chartVars>>

\* the callback with a user, at start with a kept session or after the form
\* signed in: setUser(currentUser); fetchRegistrationStatus calls getDoc
AuthStateUser ==
  /\ user = "null" /\ ~signingOut
  /\ \E f \in 1..MaxFetches :
       /\ ~InFlight(fetches[f])
       /\ fetches' = [fetches EXCEPT ![f] = [pc |-> "getDoc", value |-> "false"]]
  /\ user' = Uid
  /\ UNCHANGED <<appLoading, isRegistered, registrationLoading, stored, toggle,
                 signingOut, chartVars>>

\* getDoc reads the document
GetDocReads(f) ==
  /\ fetches[f].pc = "getDoc"
  /\ fetches' = [fetches EXCEPT ![f] = [pc |-> "gotDoc", value |-> stored]]
  /\ UNCHANGED <<user, appLoading, isRegistered, registrationLoading, stored, toggle,
                 signingOut, chartVars>>

\* after await getDoc, the document exists:
\* setIsRegistered(userDoc.data().isRegistered || false); then setLoading(false)
FetchSetsFlag(f) ==
  /\ fetches[f].pc = "gotDoc" /\ fetches[f].value # "missing"
  /\ isRegistered' = (fetches[f].value = "true")
  /\ appLoading' = FALSE
  /\ fetches' = [fetches EXCEPT ![f] = Idle]
  /\ UNCHANGED <<user, registrationLoading, stored, toggle, signingOut, chartVars>>

\* after await getDoc, the document is missing: setDoc({ isRegistered: false })
FetchCreates(f) ==
  /\ fetches[f].pc = "gotDoc" /\ fetches[f].value = "missing"
  /\ fetches' = [fetches EXCEPT ![f] = [pc |-> "setDoc", value |-> "false"]]
  /\ UNCHANGED <<user, appLoading, isRegistered, registrationLoading, stored, toggle,
                 signingOut, chartVars>>

\* the setDoc of fetchRegistrationStatus writes the document
FetchWrites(f) ==
  /\ fetches[f].pc = "setDoc"
  /\ stored' = "false"
  /\ fetches' = [fetches EXCEPT ![f] = [pc |-> "written", value |-> "false"]]
  /\ UNCHANGED <<user, appLoading, isRegistered, registrationLoading, toggle,
                 signingOut, chartVars>>

\* after await setDoc: setIsRegistered(false); then setLoading(false)
FetchClearsFlag(f) ==
  /\ fetches[f].pc = "written"
  /\ isRegistered' = FALSE
  /\ appLoading' = FALSE
  /\ fetches' = [fetches EXCEPT ![f] = Idle]
  /\ UNCHANGED <<user, registrationLoading, stored, toggle, signingOut, chartVars>>

\* onClick of the register button, which is there for a user once App has
\* loaded and is disabled while registrationLoading: setRegistrationLoading(true);
\* setDoc({ isRegistered: !isRegistered })
ClickToggle ==
  /\ user # "null" /\ ~appLoading /\ ~registrationLoading
  /\ registrationLoading' = TRUE
  /\ toggle' = [pc |-> "setDoc", value |-> IF isRegistered THEN "false" ELSE "true"]
  /\ UNCHANGED <<user, appLoading, isRegistered, stored, fetches, signingOut, chartVars>>

\* the setDoc of toggleRegistration writes the document
ToggleWrites ==
  /\ toggle.pc = "setDoc"
  /\ stored' = toggle.value
  /\ toggle' = [toggle EXCEPT !.pc = "written"]
  /\ UNCHANGED <<user, appLoading, isRegistered, registrationLoading, fetches,
                 signingOut, chartVars>>

\* after await setDoc: setIsRegistered(newStatus); setRegistrationLoading(false)
ToggleSetsFlag ==
  /\ toggle.pc = "written"
  /\ isRegistered' = (toggle.value = "true")
  /\ registrationLoading' = FALSE
  /\ toggle' = Idle
  /\ UNCHANGED <<user, appLoading, stored, fetches, signingOut, chartVars>>

\* onClick of the sign-out button: signOut(auth), on which the callback runs
\* setUser(null); setLoading(false)
ClickSignOut ==
  /\ user # "null" /\ ~appLoading /\ ~signingOut
  /\ user' = "null"
  /\ signingOut' = TRUE
  /\ UNCHANGED <<appLoading, isRegistered, registrationLoading, stored, fetches,
                 toggle, chartVars>>

\* after await signOut: setIsRegistered(false)
SignOutClearsFlag ==
  /\ signingOut
  /\ isRegistered' = FALSE
  /\ signingOut' = FALSE
  /\ UNCHANGED <<user, appLoading, registrationLoading, stored, fetches, toggle,
                 chartVars>>

\* the document of the user may be missing or hold either value
InitAccount == ChartMounted /\ AccountMounted /\ stored \in {"missing", "true", "false"}

NextAccount ==
  \/ AuthStateNull
  \/ AuthStateUser
  \/ \E f \in 1..MaxFetches :
       \/ GetDocReads(f)
       \/ FetchSetsFlag(f)
       \/ FetchCreates(f)
       \/ FetchWrites(f)
       \/ FetchClearsFlag(f)
  \/ ClickToggle
  \/ ToggleWrites
  \/ ToggleSetsFlag
  \/ ClickSignOut
  \/ SignOutClearsFlag

SpecAccount == InitAccount /\ [][NextAccount]_vars

(***************************************************************************)
(* The contract of the aggregation, stated over the inputs of a render     *)
(***************************************************************************)
\* the key of a calendar month
KeyOf(cursor) == cursor.year * 12 + cursor.month

ChosenField == IF filterType = "supplier" THEN "SUPPLIER" ELSE "ITEM DESCRIPTION"

\* the record carries exactly the selected value in the chosen field
IsChosen(row) == ChosenField \in DOMAIN row /\ row[ChosenField] = selectedValue

YearMonthParse(row) ==
  /\ ~parseInt(FieldString(row, "YEAR")).isNaN
  /\ ~parseInt(FieldString(row, "MONTH")).isNaN

CalendarMonth(row) ==
  Cursor(parseInt(FieldString(row, "YEAR")).val, parseInt(FieldString(row, "MONTH")).val)

InSelectedRange(row) ==
  /\ YearMonthParse(row)
  /\ KeyOf(startDate) <= KeyOf(CalendarMonth(row))
  /\ KeyOf(CalendarMonth(row)) <= KeyOf(endDate)

Passes(row) == IsChosen(row) /\ InSelectedRange(row)

PassingRows == SelectSeq(rawData, Passes)

\* a render with a selection and a valid range
Aggregated == rendered /\ selectedValue # <<>> /\ KeyOf(startDate) <= KeyOf(endDate)

\* the calendar month an aggregate's key "YYYY-MM" names
MonthOfKey(key) == Cursor(parseInt(split(key)[1]).val, parseInt(split(key)[2]).val)

\* the key is a four-digit year, a dash and a two-digit month 01..12
IsCanonicalKey(key) ==
  /\ Len(key) = 7 /\ key[5] = "-"
  /\ \A i \in {1, 2, 3, 4, 6, 7} : key[i] \in Digits
  /\ MonthOfKey(key).month \in 1..12

\* the most decimal places of a sample amount; exact amounts are counted in
\* units of 10^-AmountDecimals, of which a hundredth holds UnitsPerCent
AmountDecimals == 3

UnitsPerCent == Pow(10, AmountDecimals - 2)

\* the exact decimal value of an amount, 0 if it is not a number
ExactUnits(dec) ==
  IF dec.isNaN THEN 0
  ELSE (IF dec.neg THEN -1 ELSE 1) * dec.num * Pow(10, AmountDecimals - dec.scale)

AmountOf(row, m) == ExactUnits(StrDecimalLiteral(FieldString(row, Column(m))))

RECURSIVE SumOf(_)
SumOf(ns) == IF ns = <<>> THEN 0 ELSE Head(ns) + SumOf(Tail(ns))

\* the exact sum of a measure over a sequence of records
ExactTotal(rows, m) == SumOf([i \in 1..Len(rows) |-> AmountOf(rows[i], m)])

\* the sum of a measure over the returned aggregates, in hundredths
ReturnedTotal(m) == SumOf([i \in 1..Len(chartData) |-> chartData[i][m]])

SumsAgree == \A m \in Measures : ReturnedTotal(m) * UnitsPerCent = ExactTotal(PassingRows, m)

\* every amount of a passing record has at most two decimal places
AmountsInCents ==
  \A i \in 1..Len(PassingRows) : \A m \in Measures :
     AmountOf(PassingRows[i], m) % UnitsPerCent = 0

HasAggregate(row) == \E i \in 1..Len(chartData) : chartData[i].month = monthKey(row)

(***************************************************************************)
(* C1 as stated: with a selection and a valid range, for every measure the *)
(* sum over the returned aggregates equals the sum over all passing        *)
(* records, an unparseable amount counting as 0.                           *)
(***************************************************************************)
C1_SumConsistency == Aggregated => SumsAgree

(***************************************************************************)
(* C1 amended: the sums agree provided every amount of a passing record    *)
(* has at most two decimal places.                                         *)
(***************************************************************************)
C1_SumConsistencyInCents == Aggregated /\ AmountsInCents => SumsAgree

\* two months are returned, a sum has a fraction, and an amount is not a number
C1_Witness ==
  /\ Aggregated /\ AmountsInCents /\ Len(chartData) = 2
  /\ \E m \in Measures : ExactTotal(PassingRows, m) % (100 * UnitsPerCent) # 0
  /\ \E i \in 1..Len(PassingRows) : \E m \in Measures :
        StrDecimalLiteral(FieldString(PassingRows[i], Column(m))).isNaN

(***************************************************************************)
(* C2: every returned aggregate's month lies between the start and the end *)
(* month, both included; every chosen record of such a month with a year   *)
(* and month that parse is counted; a record out of the range or with an   *)
(* unparseable year or month changes nothing in the result.                *)
(***************************************************************************)
C2_RangeInclusion ==
  Aggregated =>
    /\ \A i \in 1..Len(chartData) :
          /\ KeyOf(startDate) <= KeyOf(MonthOfKey(chartData[i].month))
          /\ KeyOf(MonthOfKey(chartData[i].month)) <= KeyOf(endDate)
    /\ \A i \in 1..Len(PassingRows) : HasAggregate(PassingRows[i])
    /\ chartData = computeChartData(SelectSeq(rawData, InSelectedRange),
                                    selectedValue, filterType, startDate, endDate)

\* a chosen record on the end month is returned beside a chosen record whose
\* year or month does not parse
C2_Witness ==
  /\ Aggregated /\ chartData # <<>>
  /\ \E i \in 1..Len(PassingRows) : KeyOf(CalendarMonth(PassingRows[i])) = KeyOf(endDate)
  /\ \E i \in 1..Len(rawData) : IsChosen(rawData[i]) /\ ~YearMonthParse(rawData[i])

(***************************************************************************)
(* C3 as stated: at most one aggregate is returned per distinct calendar   *)
(* month among the passing records, and none for a month without a passing *)
(* record.                                                                 *)
(***************************************************************************)
C3_OneAggregatePerMonth ==
  Aggregated =>
    /\ \A i, j \in 1..Len(chartData) :
          i # j => MonthOfKey(chartData[i].month) # MonthOfKey(chartData[j].month)
    /\ \A i \in 1..Len(chartData) : \E j \in 1..Len(PassingRows) :
          CalendarMonth(PassingRows[j]) = MonthOfKey(chartData[i].month)

(***************************************************************************)
(* C4 as stated: of two consecutive returned aggregates the earlier one's  *)
(* (year, month) strictly precedes the later one's.                        *)
(***************************************************************************)
Chronological ==
  \A i \in 1..(Len(chartData) - 1) :
     KeyOf(MonthOfKey(chartData[i].month)) < KeyOf(MonthOfKey(chartData[i + 1].month))

C4_Chronological == Aggregated => Chronological

(***************************************************************************)
(* C4 amended: the order is chronological provided every returned key is a *)
(* four-digit year, a dash and a two-digit month 01..12.                   *)
(***************************************************************************)
C4_ChronologicalCanonical ==
  Aggregated /\ (\A i \in 1..Len(chartData) : IsCanonicalKey(chartData[i].month))
    => Chronological

\* two canonical months that the sort had to exchange
C4_Witness ==
  /\ Aggregated /\ Len(chartData) = 2 /\ Len(PassingRows) = 2
  /\ \A i \in 1..2 : IsCanonicalKey(chartData[i].month)
  /\ monthKey(PassingRows[1]) = chartData[2].month

(***************************************************************************)
(* C5: a record is counted only if its chosen field equals the selected    *)
(* value exactly; records whose field differs from it in case or length,   *)
(* or that carry the value in the other field, change nothing in the       *)
(* result.                                                                 *)
(***************************************************************************)
C5_ExactSelection ==
  Aggregated =>
    /\ chartData = computeChartData(SelectSeq(rawData, IsChosen),
                                    selectedValue, filterType, startDate, endDate)
    /\ \A i \in 1..Len(chartData) : \E j \in 1..Len(rawData) :
          IsChosen(rawData[j]) /\ monthKey(rawData[j]) = chartData[i].month

\* the selected value begins the chosen field of a record that is not chosen
StartsWithSelected(row) ==
  /\ ChosenField \in DOMAIN row /\ Len(row[ChosenField]) > Len(selectedValue)
  /\ SubSeq(row[ChosenField], 1, Len(selectedValue)) = selectedValue

\* a month is returned while a record of the range carries a longer value
C5_Witness ==
  /\ Aggregated /\ chartData # <<>>
  /\ \E i \in 1..Len(rawData) : StartsWithSelected(rawData[i]) /\ InSelectedRange(rawData[i])

(***************************************************************************)
(* C6: the result is the empty sequence whenever the selected value is     *)
(* empty, the record set is empty, or the end month precedes the start     *)
(* month.                                                                  *)
(***************************************************************************)
C6_EmptyResult ==
  rendered /\ (selectedValue = <<>> \/ rawData = <<>> \/ KeyOf(endDate) < KeyOf(startDate))
    => chartData = <<>>

\* nothing is selected and a record of the range has an empty chosen field
C6_Witness ==
  /\ rendered /\ selectedValue = <<>> /\ chartData = <<>>
  /\ \E i \in 1..Len(rawData) : Passes(rawData[i])

(***************************************************************************)
(* C7: an amount that is missing or not a number counts as 0: the result   *)
(* is the one obtained with "0" in its place, and every passing record's   *)
(* month is returned whatever its amounts are.                             *)
(***************************************************************************)
MeasureColumns == {Column(m) : m \in Measures}

IsMalformed(row, column) == StrDecimalLiteral(FieldString(row, column)).isNaN

WithZeros(row) ==
  [f \in DOMAIN row \cup MeasureColumns |->
     IF f \in MeasureColumns /\ IsMalformed(row, f) THEN <<"0">> ELSE row[f]]

C7_MalformedCountsAsZero ==
  Aggregated =>
    /\ chartData = computeChartData([i \in 1..Len(rawData) |-> WithZeros(rawData[i])],
                                    selectedValue, filterType, startDate, endDate)
    /\ \A i \in 1..Len(PassingRows) : HasAggregate(PassingRows[i])

\* a month is returned whose only record has an amount that is not a number
C7_Witness ==
  /\ Aggregated /\ Len(PassingRows) = 1 /\ Len(chartData) = 1
  /\ \E column \in MeasureColumns : IsMalformed(PassingRows[1], column)
  /\ \E m \in Measures : chartData[1][m] # 0

(***************************************************************************)
(* C8 as stated: each returned measure is the exact sum of the month's     *)
(* amounts rounded to the nearest hundredth, a sum halfway between two     *)
(* hundredths going to the upper one; a negative sum stays negative.       *)
(***************************************************************************)
RowsOfKey(key) == SelectSeq(PassingRows, LAMBDA row : monthKey(row) = key)

\* the nearest multiple of a hundredth, in hundredths; \div rounds down
HalfUp(units) == (2 * units + UnitsPerCent) \div (2 * UnitsPerCent)

C8_RoundHalfUp ==
  Aggregated =>
    \A i \in 1..Len(chartData) : \A m \in Measures :
       chartData[i][m] = HalfUp(ExactTotal(RowsOfKey(chartData[i].month), m))

(***************************************************************************)
(* C9: once the load has completed, after any sequence of changes of the   *)
(* filter type, search term, selected value, start date and end date, the  *)
(* series handed to the chart is the aggregation of the loaded rows under  *)
(* the current filter type, selected value, start date and end date; a     *)
(* result computed for earlier inputs is never held after a change.        *)
(***************************************************************************)
C9_SeriesTracksInputs ==
  request = "complete" =>
    chartData = computeChartData(rawData, selectedValue, filterType, startDate, endDate)

\* a chart is shown after the filter type, the search term and the start
\* date have all been changed
C9_Witness ==
  /\ request = "complete" /\ View = "chart"
  /\ filterType = "item" /\ searchTerm # <<>> /\ startDate # Cursor(2017, 1)

(***************************************************************************)
(* C10: until the load completes the row set and the aggregation result    *)
(* are empty and the loading view is shown; a chart is shown only after    *)
(* the load completed successfully; once the load has failed it stays      *)
(* failed, and the error view is shown with no rows and no result.         *)
(***************************************************************************)
LoadGating ==
  /\ request = "pending" => rawData = <<>> /\ chartData = <<>> /\ View = "loading"
  /\ View = "chart" => request = "complete"
  /\ request = "failed" => View = "error" /\ rawData = <<>> /\ chartData = <<>>

C10_LoadGating == []LoadGating /\ [][request = "failed" => request' = "failed"]_vars

\* the load has failed and the error view is shown
C10_Witness == request = "failed" /\ View = "error" /\ error = "Failed to load data"

(***************************************************************************)
(* The view shown for given inputs, and the inputs the controls offer      *)
(***************************************************************************)
RangeIsValid == KeyOf(startDate) <= KeyOf(endDate)

\* exactly one of the four views, each under its own condition
FourViews ==
  /\ View \in {"invalidRange", "select", "noData", "chart"}
  /\ View = "invalidRange" <=> ~RangeIsValid
  /\ View = "select" <=> RangeIsValid /\ selectedValue = <<>>
  /\ View = "noData" <=> RangeIsValid /\ selectedValue # <<>> /\ chartData = <<>>
  /\ View = "chart" <=> RangeIsValid /\ selectedValue # <<>> /\ chartData # <<>>

ShownFor(rows, selected, fType, start, end) ==
  IF KeyOf(end) < KeyOf(start) THEN "invalidRange"
  ELSE IF selected = <<>> THEN "select"
  ELSE IF computeChartData(rows, selected, fType, start, end) = <<>> THEN "noData"
  ELSE "chart"

\* the values the value select offers for a filter type with no search term
Offered(fType) ==
  {filteredOptions(rawData, fType, <<>>)[i] :
     i \in 1..Len(filteredOptions(rawData, fType, <<>>))}

\* some dates of the date selects show the view for the selected value
CanShowWith(view, selected, fType, dates) ==
  \E start \in dates : \E end \in dates :
     ShownFor(rawData, selected, fType, start, end) = view

\* some setting of the controls shows the view
CanShowOver(view, dates) ==
  \/ CanShowWith(view, <<>>, "supplier", dates)
  \/ \E fType \in {"supplier", "item"} : \E selected \in Offered(fType) :
        CanShowWith(view, selected, fType, dates)

CanShow(view) == CanShowOver(view, generateDateOptions(yearRange(rawData)))

\* the value select offers nothing but its placeholder, whatever the filter type
NothingOffered == \A fType \in {"supplier", "item"} : columnValues(rawData, filterField(fType)) = {}

(***************************************************************************)
(* C11 as stated: after a successful load exactly one of the four views is *)
(* shown, each under its own condition, the filter controls are there, and *)
(* a later change of the inputs can reach every other view.                *)
(***************************************************************************)
C11_DisplayStates ==
  request = "complete" =>
    /\ FourViews
    /\ ControlsShown
    /\ \A view \in {"invalidRange", "select", "noData", "chart"} \ {View} : CanShow(view)

(***************************************************************************)
(* C11 amended: after a successful load exactly one of the four views is   *)
(* shown, each under its own condition, the filter controls are there, and *)
(* a later change can reach the invalid-range and the not-yet-selected     *)
(* view; the no-data view and the chart are shown only if the loaded rows  *)
(* offer a value to select.                                                *)
(***************************************************************************)
C11_DisplayStatesOffered ==
  request = "complete" =>
    /\ FourViews
    /\ ControlsShown
    /\ CanShow("invalidRange") /\ CanShow("select")
    /\ View \in {"noData", "chart"} => ~NothingOffered

\* the no-data view, reached by changing the selection and the start date
C11_Witness ==
  /\ request = "complete" /\ View = "noData"
  /\ selectedValue # <<>> /\ startDate # Cursor(2017, 1)

(***************************************************************************)
(* The contract of the option list                                         *)
(***************************************************************************)
\* the sorted list of the chosen filter type
ChosenList == IF filterType = "supplier" THEN domain.suppliers ELSE domain.items

\* the lower-cased text contains the lower-cased search term
ContainsTerm(text) ==
  \E k \in 0..(Len(text) - Len(searchTerm)) : \A j \in 1..Len(searchTerm) :
     toLowerCaseChar(text[k + j]) = toLowerCaseChar(searchTerm[j])

FirstHundred(list) == SubSeq(list, 1, IF Len(list) < 100 THEN Len(list) ELSE 100)

(***************************************************************************)
(* C12: the options are taken from the sorted list of the chosen filter    *)
(* type only; with an empty search term they are its first min(100, size)  *)
(* entries in order; otherwise they are the first at most 100, in order,   *)
(* of exactly the entries whose lower-cased text contains the lower-cased  *)
(* search term; there are never more than 100.                             *)
(***************************************************************************)
C12_FilterOptions ==
  rendered =>
    /\ Len(options) <= 100
    /\ searchTerm = <<>> => options = FirstHundred(ChosenList)
    /\ searchTerm # <<>> => options = FirstHundred(SelectSeq(ChosenList, ContainsTerm))

\* more than 100 entries contain the search term and 100 of them are returned,
\* none of them beginning with it
C12_Witness ==
  /\ rendered /\ searchTerm # <<>> /\ Len(options) = 100
  /\ Len(SelectSeq(ChosenList, ContainsTerm)) > 100
  /\ \A i \in 1..Len(options) : SubSeq(options[i], 1, Len(searchTerm)) # searchTerm

(***************************************************************************)
(* C13 as stated: with the search term "ac" and the sorted list            *)
(* ["Acme", "Ajax", "Beta"] the options are ["Acme", "Ajax"].              *)
(***************************************************************************)
IsExample == rendered /\ ChosenList = <<Acme, Ajax, Beta>> /\ searchTerm = <<"a", "c">>

C13_ExampleAcmeAjax == IsExample => options = <<Acme, Ajax>>

(***************************************************************************)
(* C13 amended: with the search term "ac" and the sorted list              *)
(* ["Acme", "Ajax", "Beta"] the options are ["Acme"].                      *)
(***************************************************************************)
C13_ExampleAcme == IsExample => options = <<Acme>>

\* the example's inputs, with the supplier list as the chosen one
C13_Witness == IsExample /\ filterType = "supplier" /\ Len(options) = 1

(***************************************************************************)
(* The contract of the derived domain                                      *)
(***************************************************************************)
\* the non-empty values of a field that occur in some row
ValuesOf(field) ==
  {rawData[i][field] :
     i \in {j \in 1..Len(rawData) : field \in DOMAIN rawData[j] /\ rawData[j][field] # <<>>}}

\* a precedes b in the lexicographic order of their characters' code units
LexLess(a, b) ==
  \E p \in 1..(Len(b)) :
     /\ \A q \in 1..(p - 1) : q <= Len(a) /\ a[q] = b[q]
     /\ p > Len(a) \/ CodeUnit(a[p]) < CodeUnit(b[p])

\* the list holds exactly the values, each once, in ascending order
IsSortedListOf(list, values) ==
  /\ {list[i] : i \in 1..Len(list)} = values
  /\ \A i, j \in 1..Len(list) : i < j => list[i] # list[j] /\ LexLess(list[i], list[j])
  /\ \A i \in 1..Len(list) : list[i] # <<>>

(***************************************************************************)
(* C14: the supplier list and the item list each hold every non-empty      *)
(* value of their field that occurs in some row and nothing else, hold no  *)
(* value twice and no empty value, and are in ascending lexicographic      *)
(* order.                                                                  *)
(***************************************************************************)
C14_DomainLists ==
  rendered =>
    /\ IsSortedListOf(domain.suppliers, ValuesOf("SUPPLIER"))
    /\ IsSortedListOf(domain.items, ValuesOf("ITEM DESCRIPTION"))

\* two suppliers given in descending order, and one item given twice
C14_Witness ==
  /\ rendered /\ Len(rawData) = 2
  /\ Len(domain.suppliers) = 2 /\ domain.suppliers[1] = rawData[2]["SUPPLIER"]
  /\ Len(domain.items) = 1

(***************************************************************************)
(* C15: minYear <= maxYear; if some row has a year that parses, they are   *)
(* the smallest and the largest parsed year over all rows; if the row set  *)
(* is empty or no year parses, they are 2020 and 2024.                     *)
(***************************************************************************)
ParsedYears ==
  {parseInt(FieldString(rawData[i], "YEAR")).val :
     i \in {j \in 1..Len(rawData) : ~parseInt(FieldString(rawData[j], "YEAR")).isNaN}}

C15_YearBounds ==
  rendered =>
    /\ domain.yearRange.min <= domain.yearRange.max
    /\ ParsedYears # {} =>
         /\ domain.yearRange.min \in ParsedYears /\ domain.yearRange.max \in ParsedYears
         /\ \A y \in ParsedYears : domain.yearRange.min <= y /\ y <= domain.yearRange.max
    /\ ParsedYears = {} => domain.yearRange = [min |-> 2020, max |-> 2024]

\* the later year comes first, and one of the two rows has no year that parses
\* or both have one
C15_Witness ==
  /\ rendered /\ Len(rawData) = 2 /\ domain.yearRange.min < domain.yearRange.max
  /\ parseInt(FieldString(rawData[1], "YEAR")).val = domain.yearRange.max

(***************************************************************************)
(* C16: the range is valid iff end.year*12 + end.month >= start.year*12 +  *)
(* start.month; a range of one month is valid: start (2020,1) with end     *)
(* (2019,1) is invalid, start (2020,1) with end (2020,1) is valid.         *)
(***************************************************************************)
C16_RangeValidity ==
  rendered =>
    /\ validRange <=> endDate.year * 12 + endDate.month >= startDate.year * 12 + startDate.month
    /\ startDate = endDate => validRange
    /\ startDate = Cursor(2020, 1) /\ endDate = Cursor(2019, 1) => ~validRange
    /\ startDate = Cursor(2020, 1) /\ endDate = Cursor(2020, 1) => validRange

\* the second example
C16_Witness == rendered /\ validRange /\ startDate = Cursor(2020, 1) /\ endDate = Cursor(2020, 1)

SelectionInDomain ==
  selectedValue = <<>> \/ selectedValue \in ValuesOf(ChosenField)

C18_SelectionInDomain ==
  /\ []SelectionInDomain
  /\ [][filterType' # filterType => selectedValue' = <<>> /\ searchTerm' = <<>>]_vars
  /\ [][ChangeSearchTerm => selectedValue' = selectedValue]_vars

\* an item is selected and the search term was changed afterwards to one that
\* the selected value does not contain
C18_Witness ==
  /\ filterType = "item" /\ selectedValue # <<>> /\ searchTerm # <<>>
  /\ ~includes(toLowerCase(selectedValue), toLowerCase(searchTerm))

(***************************************************************************)
(* C19 as stated: whenever a user is signed in and no fetch and no toggle  *)
(* is in flight, the isRegistered shown equals the isRegistered field of   *)
(* the user's document.                                                    *)
(***************************************************************************)
NothingInFlight == ~InFlight(toggle) /\ \A f \in 1..MaxFetches : ~InFlight(fetches[f])

C19_FlagConsistent ==
  user # "null" /\ NothingInFlight => stored = (IF isRegistered THEN "true" ELSE "false")

====
